---- MODULE Spec2Model ----
(***************************************************************************)
(* Selection-to-query pipeline of the document reader front end.           *)
(*                                                                         *)
(*   PDFViewer  : polls the embedded viewer for the selected text every    *)
(*                200 ms, keeps it in liveSelection, debounces it          *)
(*                (useDebounce, 2000 ms) and hands a non-empty debounced   *)
(*                selection to the page through onTextSelect.              *)
(*   Index      : keeps selectedText and passes it to RightPanel.          *)
(*   RightPanel : on a new selectedText fetches related sections and       *)
(*                insights, and fetches the persona podcast once both      *)
(*                loading flags are down.                                  *)
(*                                                                         *)
(* React is modelled by what it does: a state setter called with the       *)
(* value the state already has changes nothing and renders nothing; the    *)
(* effects of a render read the values of that render, their updates are   *)
(* applied together afterwards and cause the next render; an effect runs   *)
(* when one of its dependencies differs from the previous render.  A       *)
(* handler and the renders it causes are one step.                         *)
(*                                                                         *)
(* The specifications share the state: Spec is RightPanel with its         *)
(* requests, the viewer settling on any text (SpecCleared adds the cleared *)
(* selection, SpecSuccess lets every request succeed, SpecReselect adds    *)
(* one more selection at rest); SpecViewer is the poller and the debounce  *)
(* of PDFViewer up to the hand-over to the page; SpecMonitor is the        *)
(* loading of documents and the polling intervals it starts.               *)
(* SpecLibrary is the document list of LeftPanel and its refreshes;       *)
(* SpecPlayer is the audio player of RightPanel.                           *)
(***************************************************************************)
EXTENDS Integers, Sequences, FiniteSets, TLC

\* ---------------------------------------------------------------- bounds
MaxEpoch == 2            \* selections that start a fetch set
MaxPodcastFailures == 1  \* podcast requests that may fail
MaxPolls == 2            \* selection queries outstanding at once
MaxLoads == 3            \* documents opened in the viewer
MaxBurst == 2            \* raw events counted within one quiet period
MaxRefreshes == 3        \* fetchDocuments() calls

\* ------------------------------------------------------------- constants
PollIntervalMs == 200
QuietPeriodMs == 2000
\* selectionInterval holding no timer (null)
NoInterval == 0
\* useState(60): the length of the audio in seconds
Duration == 60

\* A text is a sequence of characters; the empty selection is the empty text.
NoText == <<>>
TextA == <<"a">>
TextB == <<"b">>
Texts == {TextA, TextB}

\* ------------------------------------------------------------- state
VARIABLES
    \* PDFViewer
    monitoring,          \* the 200 ms selection-polling interval is running
    polls,               \* getSelectedContent() calls not yet settled
    liveSelection,       \* useState("") of PDFViewer
    debouncedSelection,  \* value returned by useDebounce(liveSelection, 2000)
    timer,               \* pending deadline of useDebounce
    mounted,             \* PDFViewer is mounted
    selectionInterval,   \* useState(null) of PDFViewer: the interval it knows
    timers,              \* intervals created and not cleared
    loads,               \* loadPDF calls whose promises have not all resolved
    \* Index
    selectedDocument,
    selectedText,
    audioFormat,
    \* RightPanel
    relatedSections,
    aiInsights,
    isLoadingRelated,
    isLoadingInsights,
    podcastData,
    isPodcastLoading,
    \* network
    inflight,            \* fetch() calls whose promise has not settled
    \* history (not program state)
    epoch,               \* number of fetch sets started so far
    issued,              \* per epoch and kind: requests issued
    podcastFailures,     \* podcast requests that failed so far
    loadsStarted,        \* loadPDF calls so far
    \* LeftPanel
    documents,           \* useState([]) of LeftPanel: the list shown
    refreshes,           \* fetchDocuments() calls that have not finished
    server,              \* the PDFs the backend holds
    refreshesStarted,    \* history: fetchDocuments() calls so far
    shownBy,             \* history: the call whose setDocuments ran last
    lastRefresh,         \* history: the fetchDocuments step taken last
    \* RightPanel audio player
    isPlaying,
    currentTime,
    sinceRaw,            \* ms since the last non-empty raw selection event
    sinceChange,         \* ms since liveSelection last changed
    burst,               \* changes to a non-empty liveSelection in this quiet period
    last                 \* the step taken last

viewerVars == <<monitoring, polls, liveSelection, debouncedSelection, timer>>
indexVars == <<selectedText, audioFormat>>
panelVars == <<relatedSections, aiInsights, isLoadingRelated, isLoadingInsights,
               podcastData, isPodcastLoading, inflight, epoch, issued>>
clockVars == <<sinceRaw, sinceChange, burst>>
monitorVars == <<mounted, selectedDocument, selectionInterval, timers, loads,
                 loadsStarted>>
libraryVars == <<documents, refreshes, server, refreshesStarted, shownBy,
                 lastRefresh>>
playerVars == <<isPlaying, currentTime>>
vars == <<viewerVars, indexVars, panelVars, podcastFailures, clockVars, last,
          monitorVars, libraryVars, playerVars>>

\* One more fetch set may start when nothing is outstanding (SettleAgain).
LastEpoch == MaxEpoch + 1
Epochs == 1..LastEpoch

\* ------------------------------------------------------------- payloads
\* A payload is identified by the selection it was computed for; ep is the
\* epoch of the request that brought it (history, for the properties).
Payload(sel, ep) == [sel |-> sel, ep |-> ep]
\* [] for relatedSections, the four empty lists for aiInsights
EmptyResult == Payload(NoText, 0)
\* null for podcastData
Null == Payload(NoText, 0)

\* A fetch() call: kind, the selection in its body, the epoch it was issued in
\* and its number among the requests of that kind and epoch.
Request(kind, sel, ep, n) == [kind |-> kind, sel |-> sel, ep |-> ep, n |-> n]

NoneIssued == [related |-> 0, insights |-> 0, podcast |-> 0]

\* ------------------------------------------------------------- RightPanel
\* The state of Index and RightPanel as one record, so that a render and its
\* effects are functions of it.
Panel ==
    [sel |-> selectedText, rel |-> relatedSections, ins |-> aiInsights,
     lr |-> isLoadingRelated, li |-> isLoadingInsights,
     pd |-> podcastData, pl |-> isPodcastLoading,
     inflight |-> inflight, epoch |-> epoch, issued |-> issued]

\* The selectedText effect without its fetchInsights() call.
SelectedTextEffectRelatedOnly(snap, u) ==
    IF snap.sel = NoText
    THEN [u EXCEPT !.rel = EmptyResult, !.ins = EmptyResult, !.pd = Null]
    ELSE LET e == u.epoch + 1 IN
         [u EXCEPT !.lr = TRUE, !.li = TRUE, !.pd = Null,
                   !.epoch = e,
                   !.inflight = @ \cup {Request("related", snap.sel, e, 1)},
                   !.issued[e].related = @ + 1]

\* The selectedText effect skipping its fetches when the stored related
\* sections are those of the selected text.
SelectedTextEffectCached(snap, u) ==
    IF snap.sel = NoText
    THEN [u EXCEPT !.rel = EmptyResult, !.ins = EmptyResult, !.pd = Null]
    ELSE IF u.rel.sel = snap.sel
    THEN [u EXCEPT !.pd = Null]
    ELSE LET e == u.epoch + 1 IN
         [u EXCEPT !.lr = TRUE, !.li = TRUE, !.pd = Null,
                   !.epoch = e,
                   !.inflight = @ \cup {Request("related", snap.sel, e, 1),
                                        Request("insights", snap.sel, e, 1)},
                   !.issued[e].related = @ + 1,
                   !.issued[e].insights = @ + 1]

\* useEffect(..., [selectedText]): snap is the render the effect belongs to,
\* u the state its updates are applied to.
SelectedTextEffect(snap, u) ==
    IF snap.sel = NoText
    THEN [u EXCEPT !.rel = EmptyResult, !.ins = EmptyResult, !.pd = Null]
    ELSE LET e == u.epoch + 1 IN
         [u EXCEPT !.lr = TRUE, !.li = TRUE, !.pd = Null,
                   !.epoch = e,
                   !.inflight = @ \cup {Request("related", snap.sel, e, 1),
                                        Request("insights", snap.sel, e, 1)},
                   !.issued[e].related = @ + 1,
                   !.issued[e].insights = @ + 1]

\* The podcast condition without its !isPodcastLoading guard.
ShouldFetchPodcastUnguarded(snap) ==
    /\ snap.sel # NoText
    /\ ~snap.lr
    /\ ~snap.li
    /\ snap.pd = Null

\* shouldFetchPodcast && !podcastData && !isPodcastLoading, on the values of
\* the render the effect belongs to.
ShouldFetchPodcast(snap) ==
    /\ snap.sel # NoText
    /\ ~snap.lr
    /\ ~snap.li
    /\ snap.pd = Null
    /\ ~snap.pl

\* useEffect(..., [selectedText, isLoadingRelated, isLoadingInsights,
\*                 podcastData, isPodcastLoading])
PodcastEffect(snap, u) ==
    IF ShouldFetchPodcast(snap)
    THEN LET e == u.epoch
             n == u.issued[e].podcast + 1 IN
         [u EXCEPT !.pl = TRUE,
                   !.inflight = @ \cup {Request("podcast", snap.sel, e, n)},
                   !.issued[e].podcast = n]
    ELSE u

PodcastDeps(s) == <<s.sel, s.lr, s.li, s.pd, s.pl>>

\* One render of RightPanel with state cur after a render with state prev:
\* the effects whose dependencies changed run in order of declaration, both
\* on the values of cur.
Commit(prev, cur) ==
    LET u1 == IF cur.sel # prev.sel THEN SelectedTextEffect(cur, cur) ELSE cur
    IN  IF PodcastDeps(cur) # PodcastDeps(prev) THEN PodcastEffect(cur, u1) ELSE u1

\* Render until no effect changes the state any more.
RECURSIVE Flush(_, _)
Flush(prev, cur) ==
    LET nxt == Commit(prev, cur)
    IN  IF nxt = cur THEN cur ELSE Flush(cur, nxt)

\* fetchRelated whose catch block blanks the insights as well.
RelatedSettledBlanksInsights(p, q, ok) ==
    [p EXCEPT !.rel = IF ok THEN Payload(q.sel, q.ep) ELSE EmptyResult,
              !.ins = IF ok THEN @ ELSE EmptyResult,
              !.lr = FALSE,
              !.inflight = @ \ {q}]

\* fetchRelated without its finally block: a failure leaves the flag up.
RelatedSettledNoFinally(p, q, ok) ==
    [p EXCEPT !.rel = IF ok THEN Payload(q.sel, q.ep) ELSE EmptyResult,
              !.lr = IF ok THEN FALSE ELSE @,
              !.inflight = @ \ {q}]

\* fetchRelated after its await: try/catch/finally
RelatedSettled(p, q, ok) ==
    [p EXCEPT !.rel = IF ok THEN Payload(q.sel, q.ep) ELSE EmptyResult,
              !.lr = FALSE,
              !.inflight = @ \ {q}]

\* fetchInsights lowering its flag in the try block only.
InsightsSettledNoFinally(p, q, ok) ==
    [p EXCEPT !.ins = IF ok THEN Payload(q.sel, q.ep) ELSE EmptyResult,
              !.li = IF ok THEN FALSE ELSE @,
              !.inflight = @ \ {q}]

\* fetchInsights after its await: try/catch/finally
InsightsSettled(p, q, ok) ==
    [p EXCEPT !.ins = IF ok THEN Payload(q.sel, q.ep) ELSE EmptyResult,
              !.li = FALSE,
              !.inflight = @ \ {q}]

\* fetchPodcastData after its await: try/catch/finally
PodcastSettled(p, q, ok) ==
    [p EXCEPT !.pd = IF ok THEN Payload(q.sel, q.ep) ELSE Null,
              !.pl = FALSE,
              !.inflight = @ \ {q}]

\* handleTextSelect clearing the selection before setting it, so that every
\* call counts as a change.
HandleTextSelectAlways(p, text) ==
    Flush([p EXCEPT !.sel = NoText], [p EXCEPT !.sel = text])

\* Index.handleTextSelect: setSelectedText(text), then the renders it causes.
HandleTextSelect(p, text) == Flush(p, [p EXCEPT !.sel = text])

\* Writes a panel record back to the variables.
SetPanel(p) ==
    /\ selectedText' = p.sel
    /\ relatedSections' = p.rel
    /\ aiInsights' = p.ins
    /\ isLoadingRelated' = p.lr
    /\ isLoadingInsights' = p.li
    /\ podcastData' = p.pd
    /\ isPodcastLoading' = p.pl
    /\ inflight' = p.inflight
    /\ epoch' = p.epoch
    /\ issued' = p.issued

\* ------------------------------------------------------------- PDFViewer
\* String.prototype.trim on a text
RECURSIVE TrimLeft(_)
TrimLeft(s) == IF s # <<>> /\ Head(s) = " " THEN TrimLeft(Tail(s)) ELSE s

RECURSIVE TrimRight(_)
TrimRight(s) ==
    IF s # <<>> /\ s[Len(s)] = " " THEN TrimRight(SubSeq(s, 1, Len(s) - 1)) ELSE s

Trim(s) == TrimRight(TrimLeft(s))

\* The debounce effect without its condition: every debounced selection is
\* handed to the page.
DebounceEffectUnfiltered(p, debounced) == HandleTextSelect(p, debounced)

\* The effect on [debouncedSelection, onTextSelect]: only a non-empty
\* debounced selection is handed to the page.
DebounceEffect(p, debounced) ==
    IF debounced # NoText /\ Trim(debounced) # NoText
    THEN HandleTextSelect(p, debounced)
    ELSE p

\* What a poll tick's getSelectedContent() call can resolve or reject with:
\* a result with text, with blank text, without data, the NO_SELECTION error,
\* or another error.
Outcomes ==
    {[kind |-> "data", data |-> <<"a">>],
     [kind |-> "data", data |-> <<" ", "b", " ">>],
     [kind |-> "data", data |-> <<" ">>],
     [kind |-> "data", data |-> <<>>],
     [kind |-> "noSelection", data |-> <<>>],
     [kind |-> "error", data |-> <<>>]}

\* The tick taking a result without text for a cleared selection.
RawEventBlankClears(outcome) ==
    CASE outcome.kind = "data" ->
             IF outcome.data # <<>> /\ Trim(outcome.data) # <<>>
             THEN [emits |-> TRUE, text |-> Trim(outcome.data)]
             ELSE [emits |-> TRUE, text |-> NoText]
      [] outcome.kind = "noSelection" -> [emits |-> TRUE, text |-> NoText]
      [] OTHER -> [emits |-> FALSE, text |-> NoText]

\* The tick passing result.data on as it is.
RawEventUntrimmed(outcome) ==
    CASE outcome.kind = "data" ->
             IF outcome.data # <<>> /\ Trim(outcome.data) # <<>>
             THEN [emits |-> TRUE, text |-> outcome.data]
             ELSE [emits |-> FALSE, text |-> NoText]
      [] outcome.kind = "noSelection" -> [emits |-> TRUE, text |-> NoText]
      [] OTHER -> [emits |-> FALSE, text |-> NoText]

\* The tick without its NO_SELECTION branch: every rejection is ignored.
RawEventNoClear(outcome) ==
    IF outcome.kind = "data" /\ outcome.data # <<>> /\ Trim(outcome.data) # <<>>
    THEN [emits |-> TRUE, text |-> Trim(outcome.data)]
    ELSE [emits |-> FALSE, text |-> NoText]

\* The raw selection event of a poll outcome: the text passed to
\* setLiveSelection, or "none" when the tick calls nothing.
RawEvent(outcome) ==
    CASE outcome.kind = "data" ->
             IF outcome.data # <<>> /\ Trim(outcome.data) # <<>>
             THEN [emits |-> TRUE, text |-> Trim(outcome.data)]
             ELSE [emits |-> FALSE, text |-> NoText]
      [] outcome.kind = "noSelection" -> [emits |-> TRUE, text |-> NoText]
      [] OTHER -> [emits |-> FALSE, text |-> NoText]

\* The debounce hook: its returned value and its pending deadline.
NoTimer == [pending |-> FALSE, value |-> NoText, remaining |-> 0]
Hook == [debounced |-> debouncedSelection, timer |-> timer]

\* useDebounce sees a new value: an empty value cancels the deadline and is
\* returned at once, a non-empty value restarts the deadline.
UseDebounce(hook, value, delay) ==
    IF value = NoText
    THEN [debounced |-> NoText, timer |-> NoTimer]
    ELSE [hook EXCEPT !.timer = [pending |-> TRUE, value |-> value,
                                 remaining |-> delay]]

\* The deadline of useDebounce elapses: the recorded value is returned.
UseDebounceElapsed(hook) == [debounced |-> hook.timer.value, timer |-> NoTimer]

\* The hook called with the polling interval as its delay.
DebouncedSelectionShort(hook, live) == UseDebounce(hook, live, PollIntervalMs)

\* PDFViewer renders with a changed liveSelection.
DebouncedSelection(hook, live) == UseDebounce(hook, live, QuietPeriodMs)

\* setLiveSelection ignored for a text while a deadline is pending.
SetLiveSelectionFirstOnly(hook, live, text) ==
    IF text = live \/ (text # NoText /\ hook.timer.pending)
    THEN hook
    ELSE UseDebounce(hook, text, QuietPeriodMs)

\* setLiveSelection(text): nothing when the state already holds text,
\* otherwise PDFViewer renders and the hook sees the new value.
SetLiveSelection(hook, live, text) ==
    IF text = live THEN hook ELSE DebouncedSelection(hook, text)

\* ------------------------------------------------------------- LeftPanel
Files == {"f1", "f2"}

\* retrieved_sections of a document, and the list a failed request leaves
Sections(name) == <<name>>
NoSections == <<>>

\* An entry of the document list
Doc(name, sections) == [name |-> name, sections |-> sections]

\* A fetchDocuments() call: its number, the request it waits for (the list,
\* then the sections of every listed document) and the names it was given.
Refresh(n, stage, pdfs) == [n |-> n, stage |-> stage, pdfs |-> pdfs]

\* The fetchDocuments step taken last: what settled, for which call, with
\* which names, and the documents whose sections request failed.
RefreshStep(op, n, pdfs, failed) ==
    [op |-> op, n |-> n, pdfs |-> pdfs, failed |-> failed]

\* docsWithSections leaving out the documents whose sections request failed.
DocsWithSectionsDropFailed(pdfs, failed) ==
    {Doc(name, Sections(name)) : name \in pdfs \ failed}

\* docsWithSections: one entry per listed name, with no sections where the
\* sections request failed
DocsWithSections(pdfs, failed) ==
    {Doc(name, IF name \in failed THEN NoSections ELSE Sections(name)) :
        name \in pdfs}

\* ------------------------------------------------------------- actions
\* Podcast requests issued so far, over all epochs.
RECURSIVE SumPodcast(_, _)
SumPodcast(iss, e) == IF e = 0 THEN 0 ELSE iss[e].podcast + SumPodcast(iss, e - 1)

\* The step taken last: the operation, the selection and epoch it was for,
\* its outcome, the number of podcast requests it issued, whether it
\* cancelled a pending debounce deadline, and the data a poll resolved with.
Last(op, sel, ep, ok, p, cut) ==
    [op |-> op, sel |-> sel, ep |-> ep, ok |-> ok,
     pod |-> SumPodcast(p.issued, LastEpoch) - SumPodcast(issued, LastEpoch),
     cut |-> cut, data |-> NoText]

Personas == {"debater", "investigator", "fundamentals", "connections"}

Elapse(ms) == IF ms + PollIntervalMs > QuietPeriodMs THEN QuietPeriodMs
              ELSE ms + PollIntervalMs

Init ==
    /\ monitoring = FALSE
    /\ polls = 0
    /\ liveSelection = NoText
    /\ debouncedSelection = NoText
    /\ timer = NoTimer
    /\ selectedText = NoText
    /\ audioFormat = "none"
    /\ relatedSections = EmptyResult
    /\ aiInsights = EmptyResult
    /\ isLoadingRelated = FALSE
    /\ isLoadingInsights = FALSE
    /\ podcastData = Null
    /\ isPodcastLoading = FALSE
    /\ inflight = {}
    /\ epoch = 0
    /\ issued = [e \in Epochs |-> NoneIssued]
    /\ podcastFailures = 0
    /\ sinceRaw = QuietPeriodMs
    /\ sinceChange = QuietPeriodMs
    /\ burst = 0
    /\ mounted = TRUE
    /\ selectedDocument = "none"
    /\ selectionInterval = NoInterval
    /\ timers = {}
    /\ loads = {}
    /\ loadsStarted = 0
    /\ last = [op |-> "init", sel |-> NoText, ep |-> 0, ok |-> TRUE, pod |-> 0,
               cut |-> FALSE, data |-> NoText]
    /\ documents = {}
    /\ refreshes = {Refresh(1, "list", {})}
    /\ server = {"f1"}
    /\ refreshesStarted = 1
    /\ shownBy = 0
    /\ lastRefresh = RefreshStep("init", 0, {}, {})
    /\ isPlaying = FALSE
    /\ currentTime = 0

\* loadPDF resolves and setupTextSelectionMonitoring starts the interval.
SetupTextSelectionMonitoring ==
    /\ ~monitoring
    /\ monitoring' = TRUE
    /\ last' = Last("setup", NoText, epoch, TRUE, Panel, FALSE)
    /\ UNCHANGED <<polls, liveSelection, debouncedSelection, timer, indexVars,
                   panelVars, podcastFailures, clockVars>>
    /\ UNCHANGED monitorVars
    /\ UNCHANGED <<libraryVars, playerVars>>

\* The interval fires: 200 ms have passed and getSelectedContent() is called.
\* A deadline that is due fires before the next tick.
Tick ==
    /\ monitoring
    /\ polls < MaxPolls
    /\ ~(timer.pending /\ timer.remaining = 0)
    /\ polls' = polls + 1
    /\ timer' = IF timer.pending
                THEN [timer EXCEPT !.remaining = @ - PollIntervalMs]
                ELSE timer
    /\ sinceRaw' = Elapse(sinceRaw)
    /\ sinceChange' = Elapse(sinceChange)
    /\ burst' = burst
    /\ last' = Last("tick", NoText, epoch, TRUE, Panel, FALSE)
    /\ UNCHANGED <<monitoring, liveSelection, debouncedSelection, indexVars,
                   panelVars, podcastFailures>>
    /\ UNCHANGED monitorVars
    /\ UNCHANGED <<libraryVars, playerVars>>

\* A getSelectedContent() promise settles: the .then / .catch of the tick.
\* An empty debounced selection is not handed to the page.
PollSettled(outcome) ==
    /\ polls > 0
    /\ polls' = polls - 1
    /\ LET raw == RawEvent(outcome)
           hook == IF raw.emits
                   THEN SetLiveSelection(Hook, liveSelection, raw.text)
                   ELSE Hook
           p == IF hook.debounced # debouncedSelection
                THEN DebounceEffect(Panel, hook.debounced)
                ELSE Panel
       IN  /\ liveSelection' = IF raw.emits THEN raw.text ELSE liveSelection
           /\ debouncedSelection' = hook.debounced
           /\ timer' = hook.timer
           /\ SetPanel(p)
           /\ sinceRaw' = IF raw.emits /\ raw.text # NoText THEN 0 ELSE sinceRaw
           /\ sinceChange' = IF liveSelection' # liveSelection THEN 0
                             ELSE sinceChange
           /\ burst' = CASE liveSelection' = liveSelection -> burst
                          [] liveSelection' = NoText -> 0
                          [] timer.pending /\ burst < MaxBurst -> burst + 1
                          [] timer.pending -> burst
                          [] OTHER -> 1
           /\ last' = [Last(outcome.kind, raw.text, epoch, raw.emits, p,
                            timer.pending /\ ~hook.timer.pending)
                       EXCEPT !.data = outcome.data]
    /\ UNCHANGED <<monitoring, audioFormat, podcastFailures>>
    /\ UNCHANGED monitorVars
    /\ UNCHANGED <<libraryVars, playerVars>>

\* The debounce deadline elapses: the debounced selection becomes the
\* recorded value and, when that changes it, the debounce effect runs.
DebounceElapsed ==
    /\ timer.pending
    /\ timer.remaining = 0
    /\ timer.value = selectedText \/ epoch < MaxEpoch
    /\ LET hook == UseDebounceElapsed(Hook)
           p == IF hook.debounced # debouncedSelection
                THEN DebounceEffect(Panel, hook.debounced)
                ELSE Panel
       IN  /\ debouncedSelection' = hook.debounced
           /\ timer' = hook.timer
           /\ SetPanel(p)
           /\ last' = Last("elapsed", hook.debounced, p.epoch, TRUE, p, FALSE)
    /\ UNCHANGED <<monitoring, polls, liveSelection, audioFormat,
                   podcastFailures, clockVars>>
    /\ UNCHANGED monitorVars
    /\ UNCHANGED <<libraryVars, playerVars>>

\* The viewer settles on text: the document is shown, the selection is held
\* for a quiet period, the debounced selection becomes text and the debounce
\* effect runs.
Settle(text) ==
    /\ text = selectedText \/ epoch < MaxEpoch
    /\ monitoring' = TRUE
    /\ liveSelection' = text
    /\ debouncedSelection' = text
    /\ LET p == DebounceEffect(Panel, text) IN
         /\ SetPanel(p)
         /\ last' = Last("settle", text, p.epoch, TRUE, p, FALSE)
    /\ UNCHANGED <<polls, timer, audioFormat, podcastFailures, clockVars>>
    /\ UNCHANGED monitorVars
    /\ UNCHANGED <<libraryVars, playerVars>>

\* The viewer settles on another text once more, when every request of the
\* earlier selections has resolved.
SettleAgain(text) ==
    /\ epoch = MaxEpoch
    /\ inflight = {}
    /\ text # selectedText
    /\ monitoring' = TRUE
    /\ liveSelection' = text
    /\ debouncedSelection' = text
    /\ LET p == DebounceEffect(Panel, text) IN
         /\ SetPanel(p)
         /\ last' = Last("settle", text, p.epoch, TRUE, p, FALSE)
    /\ UNCHANGED <<polls, timer, audioFormat, podcastFailures, clockVars>>
    /\ UNCHANGED monitorVars
    /\ UNCHANGED <<libraryVars, playerVars>>

\* The viewer reports the selection cleared: liveSelection and, through the
\* hook, the debounced selection become empty and the debounce effect runs.
Cleared ==
    /\ debouncedSelection # NoText
    /\ LET hook == SetLiveSelection(Hook, liveSelection, NoText)
           p == IF hook.debounced # debouncedSelection
                THEN DebounceEffect(Panel, hook.debounced)
                ELSE Panel
       IN  /\ liveSelection' = NoText
           /\ debouncedSelection' = hook.debounced
           /\ timer' = hook.timer
           /\ SetPanel(p)
           /\ last' = Last("noSelection", NoText, epoch, TRUE, p, FALSE)
    /\ UNCHANGED <<monitoring, polls, audioFormat, podcastFailures, clockVars>>
    /\ UNCHANGED monitorVars
    /\ UNCHANGED <<libraryVars, playerVars>>

RelatedResponse(q, ok) ==
    /\ q \in inflight
    /\ q.kind = "related"
    /\ LET p == Flush(Panel, RelatedSettled(Panel, q, ok)) IN
         /\ SetPanel(p)
         /\ last' = Last("related", q.sel, q.ep, ok, p, FALSE)
    /\ UNCHANGED <<viewerVars, audioFormat, podcastFailures, clockVars>>
    /\ UNCHANGED monitorVars
    /\ UNCHANGED <<libraryVars, playerVars>>

InsightsResponse(q, ok) ==
    /\ q \in inflight
    /\ q.kind = "insights"
    /\ LET p == Flush(Panel, InsightsSettled(Panel, q, ok)) IN
         /\ SetPanel(p)
         /\ last' = Last("insights", q.sel, q.ep, ok, p, FALSE)
    /\ UNCHANGED <<viewerVars, audioFormat, podcastFailures, clockVars>>
    /\ UNCHANGED monitorVars
    /\ UNCHANGED <<libraryVars, playerVars>>

PodcastResponse(q, ok) ==
    /\ q \in inflight
    /\ q.kind = "podcast"
    /\ ok \/ podcastFailures < MaxPodcastFailures
    /\ podcastFailures' = IF ok THEN podcastFailures ELSE podcastFailures + 1
    /\ LET p == Flush(Panel, PodcastSettled(Panel, q, ok)) IN
         /\ SetPanel(p)
         /\ last' = Last("podcast", q.sel, q.ep, ok, p, FALSE)
    /\ UNCHANGED <<viewerVars, audioFormat, clockVars>>
    /\ UNCHANGED monitorVars
    /\ UNCHANGED <<libraryVars, playerVars>>

\* The personas the podcast service has an entry for in its answer for a
\* selection: all of them for one text, all but one for the other.
PodcastEntries(sel) ==
    IF sel = TextB THEN Personas \ {"connections"} ELSE Personas

\* handlePodcastClick passing on every persona once podcast data is stored.
HandlePodcastClickAnyPersona(persona) == podcastData # Null

\* handlePodcastClick: if (podcastData && podcastData[persona])
HandlePodcastClick(persona) ==
    podcastData # Null /\ persona \in PodcastEntries(podcastData.sel)

\* arePodcastButtonsDisabled
PodcastButtonsDisabled ==
    isLoadingRelated \/ isLoadingInsights \/ isPodcastLoading \/ podcastData = Null

\* handlePodcastClick -> onAudioFormatSelect -> Index.handleAudioFormatSelect:
\* Index renders again with a new handleTextSelect, so the debounce effect of
\* PDFViewer runs again on the debounced selection it already has.
HandleAudioFormatSelect(persona) ==
    /\ ~PodcastButtonsDisabled
    /\ HandlePodcastClick(persona)
    /\ persona # audioFormat
    /\ audioFormat' = persona
    /\ LET p == DebounceEffect(Panel, debouncedSelection) IN
         /\ SetPanel(p)
         /\ last' = Last("reselect", debouncedSelection, p.epoch, TRUE, p, FALSE)
    /\ UNCHANGED <<viewerVars, podcastFailures, clockVars>>
    /\ UNCHANGED monitorVars
    /\ UNCHANGED <<libraryVars, playerVars>>

\* The related tab shows a section list with content: a selection is held,
\* the loading text is not shown and relatedSections is not empty.
RelatedRendered ==
    selectedText # NoText /\ ~isLoadingRelated /\ relatedSections # EmptyResult

\* The insights tab shows content: the loading text is not shown and one of
\* the lists of aiInsights is not empty.
InsightsRendered == ~isLoadingInsights /\ aiInsights # EmptyResult

\* ------------------------------------------------------------- player
\* The updater of the playback interval never stopping at the end.
PlaybackTickUnclamped(prev) == [time |-> prev + 1, stops |-> FALSE]

\* The updater passed to setCurrentTime by the playback interval: the new
\* time, and whether it calls setIsPlaying(false).
PlaybackTick(prev) ==
    LET newTime == prev + 1 IN
    IF newTime >= Duration
    THEN [time |-> Duration, stops |-> TRUE]
    ELSE [time |-> newTime, stops |-> FALSE]

\* Everything but the audio player and the record of the last step
notPlayerVars == <<viewerVars, indexVars, panelVars, podcastFailures,
                   clockVars, monitorVars, libraryVars>>

\* handlePlayPause: the effect on [isPlaying, duration] starts or clears the
\* one-second interval.
HandlePlayPause ==
    /\ isPlaying' = ~isPlaying
    /\ last' = Last("playPause", NoText, epoch, TRUE, Panel, FALSE)
    /\ UNCHANGED currentTime
    /\ UNCHANGED notPlayerVars

\* The one-second interval fires; it exists only while isPlaying.
PlaybackSecond ==
    /\ isPlaying
    /\ LET tick == PlaybackTick(currentTime) IN
         /\ currentTime' = tick.time
         /\ isPlaying' = IF tick.stops THEN FALSE ELSE isPlaying
    /\ last' = Last("second", NoText, epoch, TRUE, Panel, FALSE)
    /\ UNCHANGED notPlayerVars

\* handleSeek: the slider (0..duration) sets the time.
HandleSeek(value) ==
    /\ currentTime' = value
    /\ last' = Last("seek", NoText, epoch, TRUE, Panel, FALSE)
    /\ UNCHANGED isPlaying
    /\ UNCHANGED notPlayerVars

\* RightPanel's audio player.
NextPlayer ==
    \/ HandlePlayPause
    \/ PlaybackSecond
    \/ \E value \in 0..Duration : HandleSeek(value)

SpecPlayer == Init /\ [][NextPlayer]_vars

\* ------------------------------------------------------------- library
\* Everything but LeftPanel
notLibraryVars == <<viewerVars, indexVars, panelVars, podcastFailures,
                    clockVars, last, monitorVars, playerVars>>

\* handleUpload: upload_batch stores the file and answers with filenames, and
\* fetchDocuments() is called.
HandleUpload(file) ==
    /\ refreshesStarted < MaxRefreshes
    /\ server' = server \cup {file}
    /\ refreshesStarted' = refreshesStarted + 1
    /\ refreshes' = refreshes \cup {Refresh(refreshesStarted + 1, "list", {})}
    /\ lastRefresh' = RefreshStep("upload", refreshesStarted + 1, {}, {})
    /\ UNCHANGED <<documents, shownBy>>
    /\ UNCHANGED notLibraryVars

\* The delete button of a listed document: delete_document removes the file
\* and answers without error, and fetchDocuments() is called.
HandleDelete(file) ==
    /\ \E doc \in documents : doc.name = file
    /\ file \in server
    /\ refreshesStarted < MaxRefreshes
    /\ server' = server \ {file}
    /\ refreshesStarted' = refreshesStarted + 1
    /\ refreshes' = refreshes \cup {Refresh(refreshesStarted + 1, "list", {})}
    /\ lastRefresh' = RefreshStep("delete", refreshesStarted + 1, {}, {})
    /\ UNCHANGED <<documents, shownBy>>
    /\ UNCHANGED notLibraryVars

\* list_pdfs answers a fetchDocuments() call with the names the backend
\* holds, and the sections of each are requested.
ListResolved(r) ==
    /\ r \in refreshes
    /\ r.stage = "list"
    /\ refreshes' = (refreshes \ {r}) \cup {Refresh(r.n, "sections", server)}
    /\ lastRefresh' = RefreshStep("list", r.n, server, {})
    /\ UNCHANGED <<documents, server, refreshesStarted, shownBy>>
    /\ UNCHANGED notLibraryVars

\* list_pdfs fails: the outer catch of fetchDocuments.
ListFailed(r) ==
    /\ r \in refreshes
    /\ r.stage = "list"
    /\ refreshes' = refreshes \ {r}
    /\ documents' = {}
    /\ shownBy' = r.n
    /\ lastRefresh' = RefreshStep("listFailed", r.n, {}, {})
    /\ UNCHANGED <<server, refreshesStarted>>
    /\ UNCHANGED notLibraryVars

\* Promise.all resolves: every sections request of the call has settled,
\* those of the documents in failed by an error, and setDocuments is called.
SectionsResolved(r, failed) ==
    /\ r \in refreshes
    /\ r.stage = "sections"
    /\ failed \subseteq r.pdfs
    /\ refreshes' = refreshes \ {r}
    /\ documents' = DocsWithSections(r.pdfs, failed)
    /\ shownBy' = r.n
    /\ lastRefresh' = RefreshStep("sections", r.n, r.pdfs, failed)
    /\ UNCHANGED <<server, refreshesStarted>>
    /\ UNCHANGED notLibraryVars

\* LeftPanel: uploads, deletions and the refreshes of the document list.
NextLibrary ==
    \/ \E file \in Files : HandleUpload(file)
    \/ \E file \in Files : HandleDelete(file)
    \/ \E r \in refreshes : ListResolved(r)
    \/ \E r \in refreshes : ListFailed(r)
    \/ \E r \in refreshes, failed \in SUBSET Files : SectionsResolved(r, failed)

SpecLibrary == Init /\ [][NextLibrary]_vars

\* ------------------------------------------------------------- documents
Documents == {"d1", "d2"}

\* A loadPDF call: its number, the selectionInterval of the render it was
\* started from (the value setupTextSelectionMonitoring will read), and the
\* promise it waits for: previewFile(), then getAPIs().
Load(n, known, stage) == [n |-> n, known |-> known, stage |-> stage]

\* if (selectionInterval) clearInterval(selectionInterval), on the value the
\* closure holds
ClearKnownInterval(ts, known) ==
    IF known # NoInterval THEN ts \ {known} ELSE ts

\* Index.handleDocumentSelect: setSelectedDocument, then the documentId effect
\* of PDFViewer calls loadPDF (the viewer script is loaded).  Index renders
\* again, so the debounce effect runs on the debounced selection it has.
HandleDocumentSelect(doc) ==
    /\ mounted
    /\ doc # selectedDocument
    /\ loadsStarted < MaxLoads
    /\ selectedDocument' = doc
    /\ loadsStarted' = loadsStarted + 1
    /\ loads' = loads \cup {Load(loadsStarted + 1, selectionInterval, "preview")}
    /\ LET p == DebounceEffect(Panel, debouncedSelection) IN
         /\ SetPanel(p)
         /\ last' = Last("document", debouncedSelection, p.epoch, TRUE, p, FALSE)
    /\ UNCHANGED <<viewerVars, audioFormat, podcastFailures, clockVars, mounted,
                   selectionInterval, timers>>
    /\ UNCHANGED <<libraryVars, playerVars>>

\* previewFilePromise.then: setupTextSelectionMonitoring clears the interval
\* its closure knows and calls viewer.getAPIs().
PreviewFileResolved(l) ==
    /\ l \in loads
    /\ l.stage = "preview"
    /\ timers' = ClearKnownInterval(timers, l.known)
    /\ loads' = (loads \ {l}) \cup {Load(l.n, l.known, "apis")}
    /\ monitoring' = (timers' # {})
    /\ last' = Last("preview", NoText, epoch, TRUE, Panel, FALSE)
    /\ UNCHANGED <<polls, liveSelection, debouncedSelection, timer, indexVars,
                   panelVars, podcastFailures, clockVars, mounted,
                   selectedDocument, selectionInterval, loadsStarted>>
    /\ UNCHANGED <<libraryVars, playerVars>>

\* viewer.getAPIs().then: setInterval(..., 200) and setSelectionInterval, which
\* does nothing once PDFViewer is unmounted.
GetAPIsResolved(l) ==
    /\ l \in loads
    /\ l.stage = "apis"
    /\ timers' = timers \cup {l.n}
    /\ selectionInterval' = IF mounted THEN l.n ELSE selectionInterval
    /\ loads' = loads \ {l}
    /\ monitoring' = TRUE
    /\ last' = Last("apis", NoText, epoch, TRUE, Panel, FALSE)
    /\ UNCHANGED <<polls, liveSelection, debouncedSelection, timer, indexVars,
                   panelVars, podcastFailures, clockVars, mounted,
                   selectedDocument, loadsStarted>>
    /\ UNCHANGED <<libraryVars, playerVars>>

\* PDFViewer unmounts: the cleanup of the mount effect (dependencies []) runs
\* with the selectionInterval of the first render.
Unmount ==
    /\ mounted
    /\ mounted' = FALSE
    /\ timers' = ClearKnownInterval(timers, NoInterval)
    /\ monitoring' = (timers' # {})
    /\ last' = Last("unmount", NoText, epoch, TRUE, Panel, FALSE)
    /\ UNCHANGED <<polls, liveSelection, debouncedSelection, timer, indexVars,
                   panelVars, podcastFailures, clockVars, selectedDocument,
                   selectionInterval, loads, loadsStarted>>
    /\ UNCHANGED <<libraryVars, playerVars>>

\* PDFViewer: documents opened one after another, and its teardown.
NextMonitor ==
    \/ \E doc \in Documents : HandleDocumentSelect(doc)
    \/ \E l \in loads : PreviewFileResolved(l)
    \/ \E l \in loads : GetAPIsResolved(l)
    \/ Unmount

SpecMonitor == Init /\ [][NextMonitor]_vars

\* RightPanel and its requests, with the viewer settling on any text.
Next ==
    \/ \E text \in Texts : Settle(text)
    \/ \E persona \in Personas : HandleAudioFormatSelect(persona)
    \/ \E q \in inflight, ok \in BOOLEAN : RelatedResponse(q, ok)
    \/ \E q \in inflight, ok \in BOOLEAN : InsightsResponse(q, ok)
    \/ \E q \in inflight, ok \in BOOLEAN : PodcastResponse(q, ok)

Spec == Init /\ [][Next]_vars

\* PDFViewer: the poller, the debounce and the hand-over to the page.
NextViewer ==
    \/ SetupTextSelectionMonitoring
    \/ Tick
    \/ \E outcome \in Outcomes : PollSettled(outcome)
    \/ DebounceElapsed

SpecViewer == Init /\ [][NextViewer]_vars

\* RightPanel and its requests, with the viewer settling on any text or
\* reporting the selection cleared.
NextCleared ==
    \/ Next
    \/ Cleared

SpecCleared == Init /\ [][NextCleared]_vars

\* RightPanel and its requests when every request resolves successfully.
NextSuccess ==
    \/ \E text \in Texts : Settle(text)
    \/ \E persona \in Personas : HandleAudioFormatSelect(persona)
    \/ \E q \in inflight : RelatedResponse(q, TRUE)
    \/ \E q \in inflight : InsightsResponse(q, TRUE)
    \/ \E q \in inflight : PodcastResponse(q, TRUE)

SpecSuccess == Init /\ [][NextSuccess]_vars

\* RightPanel and its requests, with one more selection after the run of Spec
\* has come to rest.
NextReselect ==
    \/ Next
    \/ \E text \in Texts : SettleAgain(text)

SpecReselect == Init /\ [][NextReselect]_vars

\* ------------------------------------------------------------- properties
InFlight(kind, e) == \E q \in inflight : q.kind = kind /\ q.ep = e

\* The request of this kind issued for epoch e has completed.
Completed(kind, e) == issued[e][kind] > 0 /\ ~InFlight(kind, e)

\* q is handled in this step and was issued for an epoch that is no longer
\* the current one.
StaleHandled(q) == q \notin inflight' /\ q.ep # epoch

\* q is handled in this step and belongs to the current epoch.
CurrentHandled(q) == q \notin inflight' /\ q.ep = epoch

\* C1: a Podcast request is issued for an epoch only when the Related and the
\* Insights request of that epoch have both completed.
C1_PodcastOnlyAfterBoth ==
    [][\A e \in Epochs :
          issued'[e].podcast > issued[e].podcast
              => (Completed("related", e) /\ Completed("insights", e))']_vars

\* C2: at most one Podcast request is issued per epoch.
C2_AtMostOnePodcastPerEpoch == \A e \in Epochs : issued[e].podcast <= 1

\* C3: a Related or Insights response of a superseded epoch changes neither
\* the stored related sections and insights nor their loading flags.
C3_StaleFetchDiscarded ==
    [][\A q \in inflight :
          (q.kind \in {"related", "insights"} /\ StaleHandled(q))
              => UNCHANGED <<relatedSections, aiInsights,
                             isLoadingRelated, isLoadingInsights>>]_vars

\* C4: a Podcast response of a superseded epoch changes neither the stored
\* podcast data nor the podcast loading flag.
C4_StalePodcastDiscarded ==
    [][\A q \in inflight :
          (q.kind = "podcast" /\ StaleHandled(q))
              => UNCHANGED <<podcastData, isPodcastLoading>>]_vars

\* C5: when the Podcast request of the current epoch fails, no podcast data is
\* stored and the step issues no further Podcast request.
C5_FailedPodcastNotRetried ==
    [][\A q \in inflight :
          (q.kind = "podcast" /\ CurrentHandled(q) /\ ~last'.ok)
              => /\ podcastData' = Null
                 /\ issued'[epoch].podcast = issued[epoch].podcast]_vars

\* C6: when the Related (Insights) request of the current epoch fails, the
\* stored result of that category is empty and its loading flag is down; and
\* if the sibling request of the epoch has settled and no podcast has been
\* started (no podcast data, not loading), the step issues the Podcast request
\* for the current selection.
C6_FailedFetchCountsAsSettled ==
    [][\A q \in inflight :
          (q.kind \in {"related", "insights"} /\ CurrentHandled(q) /\ ~last'.ok)
              => /\ q.kind = "related"
                        => relatedSections' = EmptyResult /\ ~isLoadingRelated'
                 /\ q.kind = "insights"
                        => aiInsights' = EmptyResult /\ ~isLoadingInsights'
                 /\ ( /\ ~InFlight(IF q.kind = "related" THEN "insights"
                                                       ELSE "related", epoch)
                      /\ podcastData = Null
                      /\ ~isPodcastLoading )
                        => \E r \in inflight' \ inflight :
                               /\ r.kind = "podcast"
                               /\ r.sel = selectedText
                               /\ r.ep = epoch]_vars

\* A failed Related or Insights request of the current epoch has just been
\* handled after its sibling, and the step issued the Podcast request.
C6_Witness ==
    /\ last.op \in {"related", "insights"}
    /\ ~last.ok
    /\ last.ep = epoch
    /\ last.pod = 1
    /\ ~isLoadingRelated
    /\ ~isLoadingInsights
    /\ isPodcastLoading
    /\ (last.op = "related" => relatedSections = EmptyResult)
    /\ (last.op = "insights" => aiInsights = EmptyResult)

\* C7: handing the page the non-empty text that is already selected issues no
\* request and changes no stored result or status.
C7_SameTextSettleIsNoOp ==
    [][(last'.op \in {"settle", "reselect"} /\ last'.sel = selectedText
            /\ selectedText # NoText)
          => UNCHANGED <<selectedText, panelVars>>]_vars

\* The selection settled again on the text already selected, while its
\* requests were still in flight.
C7_Witness ==
    /\ last.op \in {"settle", "reselect"}
    /\ last.sel = selectedText
    /\ last.ep = epoch
    /\ last.pod = 0
    /\ epoch > 0
    /\ issued[epoch].related = 1
    /\ InFlight("related", epoch)

\* A poll's NO_SELECTION rejection is handled in this step.
ClearedStep == polls' < polls /\ last'.op = "noSelection"

\* The debounce deadline elapses in this step and a settled value is emitted.
ElapsedStep == timer.pending /\ ~timer'.pending /\ last'.op = "elapsed"

\* A poll's result is handled in this step and carries the text that
\* liveSelection already holds.
RepeatedStep ==
    /\ polls' < polls
    /\ last'.op = "data"
    /\ last'.ok
    /\ last'.sel = liveSelection

\* C8: when the viewer reports the selection cleared while a non-empty
\* selection is current, the step blanks the selected text and the results.
C8_ClearBlanksPanel ==
    [][(ClearedStep /\ selectedText # NoText)
          => /\ selectedText' = NoText
             /\ relatedSections' = EmptyResult
             /\ aiInsights' = EmptyResult
             /\ podcastData' = Null]_vars

\* C9 as stated: a settled value is emitted only when no non-empty raw
\* selection event has arrived for a full quiet period.
C9_QuietSinceLastRawEvent ==
    [][ElapsedStep => sinceRaw >= QuietPeriodMs]_vars

\* C9 as amended: a settled value is emitted only when liveSelection has not
\* changed for a full quiet period, and it is the value liveSelection holds; a
\* raw event that repeats the text liveSelection holds leaves the deadline as
\* it is.
C9_QuietSinceLastChange ==
    [][/\ ElapsedStep => /\ sinceChange >= QuietPeriodMs
                         /\ debouncedSelection' = liveSelection
       /\ RepeatedStep => timer' = timer]_vars

\* A value has just settled although raw events repeating it kept arriving
\* during its quiet period.
C9_Witness ==
    /\ last.op = "elapsed"
    /\ last.sel # NoText
    /\ debouncedSelection = last.sel
    /\ sinceChange = QuietPeriodMs
    /\ sinceRaw < QuietPeriodMs

AfterRelated(p, q, ok) == Flush(p, RelatedSettled(p, q, ok))

\* The panel after the response q to an Insights request has been handled.
AfterInsights(p, q, ok) == Flush(p, InsightsSettled(p, q, ok))

\* C11: a step that starts an epoch issues exactly one Related and one
\* Insights request, both with the selected text and both in flight after the
\* step; no other step issues either; and whenever both requests of the
\* current epoch are in flight, handling their responses in either order
\* leaves the same state.
C11_OneFetchSetPerEpoch ==
    [][/\ epoch' # epoch
            => /\ epoch' = epoch + 1
               /\ issued'[epoch'].related = 1
               /\ issued'[epoch'].insights = 1
               /\ Request("related", selectedText', epoch', 1) \in inflight'
               /\ Request("insights", selectedText', epoch', 1) \in inflight'
       /\ \A e \in Epochs :
              e # epoch' \/ epoch' = epoch
                  => /\ issued'[e].related = issued[e].related
                     /\ issued'[e].insights = issued[e].insights
       /\ \A r, i \in inflight, okR, okI \in BOOLEAN :
              (r.kind = "related" /\ i.kind = "insights"
                   /\ r.ep = epoch /\ i.ep = epoch)
                  => AfterInsights(AfterRelated(Panel, r, okR), i, okI)
                         = AfterRelated(AfterInsights(Panel, i, okI), r, okR)]_vars

\* Both requests of the current epoch have completed, Insights first, and
\* both results are stored.
C11_Witness ==
    /\ epoch > 0
    /\ last.op = "related"
    /\ last.ep = epoch
    /\ Completed("related", epoch)
    /\ Completed("insights", epoch)
    /\ relatedSections = Payload(selectedText, epoch)
    /\ aiInsights = Payload(selectedText, epoch)

\* C12: the epoch number never decreases, and every stored result (related
\* sections, insights, podcast data) was brought by a request of the current
\* epoch.
C12_OneCurrentEpoch ==
    [][/\ epoch' >= epoch
       /\ relatedSections' # EmptyResult => relatedSections'.ep = epoch'
       /\ aiInsights' # EmptyResult => aiInsights'.ep = epoch'
       /\ podcastData' # Null => podcastData'.ep = epoch']_vars

\* C13: once the viewer has reported the selection cleared, handling a
\* response of the current epoch leaves the stored results empty.
C13_ResponseAfterClearDiscarded ==
    [][\A q \in inflight :
          (debouncedSelection = NoText /\ epoch > 0 /\ CurrentHandled(q))
              => /\ relatedSections' = EmptyResult
                 /\ aiInsights' = EmptyResult
                 /\ podcastData' = Null]_vars

\* C14: at most one selection-polling interval is active.
C14_AtMostOnePollingTimer == Cardinality(timers) <= 1

\* C15: once PDFViewer is unmounted no selection-polling interval is active.
C15_NoTimerAfterUnmount == ~mounted => timers = {}

\* A getSelectedContent() promise settles in this step.
PollStep == polls' < polls

\* C16: a poll that resolves with text that is non-empty once trimmed sets the
\* live selection to the trimmed text; one rejected with NO_SELECTION sets it
\* to the empty text; one rejected otherwise changes neither the live
\* selection nor the debounce hook, and the interval keeps running.
C16_RawEventFollowsOutcome ==
    [][PollStep =>
         /\ (last'.op = "data" /\ Trim(last'.data) # <<>>)
                => liveSelection' = Trim(last'.data)
         /\ last'.op = "noSelection" => liveSelection' = NoText
         /\ last'.op = "error"
                => /\ liveSelection' = liveSelection
                   /\ debouncedSelection' = debouncedSelection
                   /\ timer' = timer
                   /\ monitoring'
                   /\ selectedText' = selectedText]_vars

\* A poll failed with another error while a trimmed selection was held and its
\* quiet period was running.
C16_Witness ==
    /\ last.op = "error"
    /\ liveSelection = TextB
    /\ timer.pending
    /\ timer.value = TextB
    /\ monitoring

\* C17: poll ticks do not overlap: the interval starts a tick only when the
\* getSelectedContent() call of every earlier tick has settled.
C17_TicksDoNotOverlap == [][polls' > polls => polls = 0]_vars

\* C18: after the debounced selection has become empty, settling again on the
\* text RightPanel held before the clear starts the next epoch with one fresh
\* Related and one fresh Insights request.
C18_ResettleStartsNewEpoch ==
    [][(/\ ElapsedStep
        /\ epoch > 0
        /\ debouncedSelection = NoText
        /\ debouncedSelection' # NoText
        /\ debouncedSelection' = selectedText)
          => /\ epoch' = epoch + 1
             /\ Request("related", debouncedSelection', epoch', 1) \in inflight'
             /\ Request("insights", debouncedSelection', epoch', 1) \in inflight']_vars

\* C19: when the Related and the Insights request of the current epoch have
\* both completed and the selected text is non-empty, a Podcast request has
\* been issued for that epoch, whatever podcast state an earlier epoch left.
C19_PodcastIssuedOnceBothSettled ==
    (/\ epoch > 0
     /\ selectedText # NoText
     /\ Completed("related", epoch)
     /\ Completed("insights", epoch))
        => issued[epoch].podcast >= 1

\* C20: a step that starts a new epoch leaves Related loading, Insights
\* loading, no podcast data stored, and no podcast counted as loading unless
\* it is a request of the new epoch.
C20_NewEpochStartsClean ==
    [][epoch' # epoch
          => /\ isLoadingRelated'
             /\ isLoadingInsights'
             /\ podcastData' = Null
             /\ isPodcastLoading' => issued'[epoch'].podcast > 0]_vars

\* C21: related sections and insights rendered as results were produced by a
\* request issued for the text that is selected now.
C21_RenderedBelongsToSelection ==
    /\ RelatedRendered => relatedSections.sel = selectedText
    /\ InsightsRendered => aiInsights.sel = selectedText

\* Nothing is outstanding: every request issued so far has resolved, and the
\* loading flags are down, so no step but a new selection issues a request.
Quiescent ==
    /\ selectedText # NoText
    /\ inflight = {}

\* C22: when every request has resolved successfully and nothing is
\* outstanding, the related sections, the insights and the podcast data are
\* the payloads of the requests of the current selection.
C22_QuiescentIsCurrent ==
    Quiescent
        => /\ relatedSections = Payload(selectedText, epoch)
           /\ aiInsights = Payload(selectedText, epoch)
           /\ podcastData = Payload(selectedText, epoch)

\* q is handled in this step and its request failed.
FailedHandled(q, kind) == q.kind = kind /\ q \notin inflight' /\ ~last'.ok

\* C23 as stated: a failed request of one category leaves the stored results
\* and the loading flags of the two other categories unchanged.
C23_FailureChangesOnlyItsCategory ==
    [][\A q \in inflight :
          /\ FailedHandled(q, "related")
                => UNCHANGED <<aiInsights, isLoadingInsights,
                               podcastData, isPodcastLoading>>
          /\ FailedHandled(q, "insights")
                => UNCHANGED <<relatedSections, isLoadingRelated,
                               podcastData, isPodcastLoading>>
          /\ FailedHandled(q, "podcast")
                => UNCHANGED <<relatedSections, isLoadingRelated,
                               aiInsights, isLoadingInsights>>]_vars

\* The podcast flag is left alone or raised by a Podcast request the step
\* issues.
PodcastOnlyStarted ==
    isPodcastLoading' # isPodcastLoading => (isPodcastLoading' /\ last'.pod = 1)

\* C23: a failed request of one category leaves the stored results of the
\* other categories and the loading flag of the other fetch unchanged; a failed
\* Related or Insights request changes the podcast flag only by starting the
\* Podcast request.
C23_FailureKeepsOtherResults ==
    [][\A q \in inflight :
          /\ FailedHandled(q, "related")
                => /\ UNCHANGED <<aiInsights, isLoadingInsights, podcastData>>
                   /\ PodcastOnlyStarted
          /\ FailedHandled(q, "insights")
                => /\ UNCHANGED <<relatedSections, isLoadingRelated, podcastData>>
                   /\ PodcastOnlyStarted
          /\ FailedHandled(q, "podcast")
                => UNCHANGED <<relatedSections, isLoadingRelated,
                               aiInsights, isLoadingInsights>>]_vars

\* The Related request of the current selection has failed after its Insights
\* request succeeded: the insights are kept and the Podcast request starts.
C23_Witness ==
    /\ last.op = "related"
    /\ ~last.ok
    /\ last.ep = epoch
    /\ relatedSections = EmptyResult
    /\ aiInsights = Payload(selectedText, epoch)
    /\ last.pod = 1

\* A poll's result is handled in this step and changes liveSelection to
\* another non-empty text.
BurstStep ==
    /\ PollStep
    /\ last'.op = "data"
    /\ liveSelection' # liveSelection
    /\ liveSelection' # NoText

\* C24: each differing non-empty raw event restarts the full quiet period on
\* its own text and emits nothing; a non-empty value settles only when the
\* deadline elapses, one quiet period after the last change, and it is the
\* text of the last raw event; the deadline is then gone, so the burst settles
\* once.
C24_BurstSettlesOnceOnLast ==
    [][/\ BurstStep
            => /\ timer' = [pending |-> TRUE, value |-> liveSelection',
                            remaining |-> QuietPeriodMs]
               /\ debouncedSelection' = debouncedSelection
               /\ selectedText' = selectedText
       /\ ElapsedStep
            => /\ debouncedSelection' = liveSelection
               /\ timer.value = liveSelection
               /\ sinceChange = QuietPeriodMs
               /\ timer.remaining = 0
               /\ timer' = NoTimer
       /\ (debouncedSelection' # debouncedSelection /\ debouncedSelection' # NoText)
            => ElapsedStep]_vars

\* "b" has just settled, one quiet period after the last of several differing
\* raw events that arrived within a quiet period of each other.
C24_Witness ==
    /\ last.op = "elapsed"
    /\ burst = MaxBurst
    /\ debouncedSelection = TextB
    /\ liveSelection = TextB
    /\ selectedText = TextB
    /\ sinceChange = QuietPeriodMs

\* The viewer settles in this step on a text other than the selected one.
SettleOnOther == last'.op = "settle" /\ last' # last /\ last'.sel # selectedText

\* C25: settling on a text other than the selected one, whether or not it was
\* selected before, starts the next epoch with one fresh Related and one fresh
\* Insights request for it, both loading.
C25_ReselectStartsNewEpoch ==
    [][SettleOnOther
          => /\ epoch' = epoch + 1
             /\ selectedText' = last'.sel
             /\ issued'[epoch'].related = 1
             /\ issued'[epoch'].insights = 1
             /\ Request("related", selectedText', epoch', 1) \in inflight' \ inflight
             /\ Request("insights", selectedText', epoch', 1) \in inflight' \ inflight
             /\ isLoadingRelated'
             /\ isLoadingInsights']_vars

\* A text has just been selected for the second time, another text having
\* been selected and its results stored in between.
C25_Witness ==
    /\ last.op = "settle"
    /\ epoch = LastEpoch
    /\ selectedText = TextA
    /\ relatedSections = Payload(TextB, MaxEpoch)
    /\ InFlight("related", epoch)
    /\ InFlight("insights", epoch)

\* Podcast requests outstanding.
PodcastsInFlight == {q \in inflight : q.kind = "podcast"}

\* C26: at most one Podcast request is outstanding at any time.
C26_AtMostOnePodcastInFlight == Cardinality(PodcastsInFlight) <= 1

\* A Podcast request is outstanding for an earlier selection while the
\* requests of the current selection have settled.
C26_Witness ==
    /\ epoch = MaxEpoch
    /\ Cardinality(PodcastsInFlight) = 1
    /\ \A q \in PodcastsInFlight : q.ep < epoch
    /\ Completed("related", epoch)
    /\ Completed("insights", epoch)

\* C27: the selected text of the page changes only to a text that is
\* non-empty once trimmed, and once non-empty it never becomes empty.
C27_SelectedTextNeverEmptied ==
    [][/\ selectedText' # selectedText
            => (selectedText' # NoText /\ Trim(selectedText') # NoText)
       /\ selectedText # NoText => selectedText' # NoText]_vars

\* The viewer has reported the selection cleared and the debounced selection
\* is empty, while the page still holds the text selected before.
C27_Witness ==
    /\ last.op = "noSelection"
    /\ last.ok
    /\ debouncedSelection = NoText
    /\ selectedText = TextA
    /\ epoch = 1

\* C28: every completion of a Related (Insights) request, success or failure,
\* leaves the Related (Insights) loading flag down; and when no Related
\* (Insights) request is outstanding the flag is down.
C28_LoadingFlagsCleared ==
    [][/\ \A q \in inflight :
            /\ (q.kind = "related" /\ q \notin inflight') => ~isLoadingRelated'
            /\ (q.kind = "insights" /\ q \notin inflight') => ~isLoadingInsights'
       /\ (\A q \in inflight' : q.kind # "related") => ~isLoadingRelated'
       /\ (\A q \in inflight' : q.kind # "insights") => ~isLoadingInsights']_vars

\* The last outstanding Related request has just failed and its flag is down
\* while an Insights request is still outstanding.
C28_Witness ==
    /\ last.op = "related"
    /\ ~last.ok
    /\ ~isLoadingRelated
    /\ \A q \in inflight : q.kind # "related"
    /\ isLoadingInsights
    /\ InFlight("insights", epoch)

\* A getSelectedContent() promise resolves in this step with a result whose
\* data is missing, empty or blank.
BlankStep == PollStep /\ last'.op = "data" /\ Trim(last'.data) = <<>>

\* C29: a poll that resolves without text changes neither the live selection
\* nor the debounced selection nor the pending deadline, and hands nothing to
\* the page.
C29_BlankResultIgnored ==
    [][BlankStep
          => /\ ~last'.ok
             /\ UNCHANGED <<liveSelection, debouncedSelection, timer,
                            selectedText, epoch>>]_vars

\* A poll has resolved with blank data while "a" was held and its quiet
\* period had partly run.
C29_Witness ==
    /\ last.op = "data"
    /\ last.data = <<" ">>
    /\ liveSelection = TextA
    /\ timer.pending
    /\ timer.value = TextA
    /\ timer.remaining < QuietPeriodMs

\* C30: the audio format of the page changes only to a persona for which the
\* stored podcast data has an entry, and only while neither Related nor
\* Insights nor Podcast is loading.
C30_PersonaNeedsPodcastEntry ==
    [][audioFormat' # audioFormat
          => /\ podcastData # Null
             /\ audioFormat' \in PodcastEntries(podcastData.sel)
             /\ ~isLoadingRelated
             /\ ~isLoadingInsights
             /\ ~isPodcastLoading]_vars

\* A persona has just been activated from podcast data that lacks the entry
\* of another persona.
C30_Witness ==
    /\ last.op = "reselect"
    /\ podcastData # Null
    /\ podcastData.sel = TextB
    /\ audioFormat \in PodcastEntries(TextB)
    /\ ~PodcastButtonsDisabled

\* C31: when no refresh of the document list is outstanding, the list shown
\* was set by the refresh started last.
C31_LatestRefreshShown == refreshes = {} => shownBy = refreshesStarted

\* A step of fetchDocuments of the given kind is taken.
RefreshSettles(op) == refreshes' # refreshes /\ lastRefresh'.op = op

\* C32: when the sections requests of a refresh have settled, every listed
\* document is in the list, with no sections where its request failed and
\* with its sections otherwise; when the list request fails the list is empty.
C32_SectionFailureIsLocal ==
    [][/\ RefreshSettles("sections")
            => /\ {doc.name : doc \in documents'} = lastRefresh'.pdfs
               /\ \A doc \in documents' :
                     doc.sections = IF doc.name \in lastRefresh'.failed
                                    THEN NoSections
                                    ELSE Sections(doc.name)
               /\ Cardinality(documents') = Cardinality(lastRefresh'.pdfs)
       /\ RefreshSettles("listFailed") => documents' = {}]_vars

\* The sections request of one of two listed documents has failed: both are
\* listed, the one without sections.
C32_Witness ==
    /\ lastRefresh.op = "sections"
    /\ lastRefresh.pdfs = {"f1", "f2"}
    /\ lastRefresh.failed = {"f1"}
    /\ documents = {Doc("f1", NoSections), Doc("f2", Sections("f2"))}

\* C33: currentTime stays within 0..duration; a one-second tick happens only
\* while playing and advances the time by one second, at most to duration;
\* the tick that reaches duration stops the playback; while paused the time
\* changes only by a seek.
C33_PlayerStaysInRange ==
    [][/\ currentTime' \in 0..Duration
       /\ last'.op = "second"
            => /\ isPlaying
               /\ currentTime' = IF currentTime + 1 >= Duration THEN Duration
                                 ELSE currentTime + 1
               /\ isPlaying' = (currentTime' < Duration)
       /\ (~isPlaying /\ currentTime' # currentTime) => last'.op = "seek"]_vars

\* A tick has just brought the time to duration and stopped the playback.
C33_Witness ==
    /\ last.op = "second"
    /\ currentTime = Duration
    /\ ~isPlaying

====
